---- MODULE Spec2Model ----
(***************************************************************************)
(* Model of app.py: the Streamlit dashboard that loads the correlation,    *)
(* stress-test and exposure workbooks and the legend, and recomputes the   *)
(* summary statistics and the portfolio-vs-bucket comparisons on every     *)
(* widget interaction.                                                     *)
(*                                                                         *)
(* Conventions.                                                            *)
(*  - A string of the program (sheet name, portfolio, scenario, ticker) is *)
(*    a sequence of symbols; the symbol "&" is one ampersand.              *)
(*  - A date cell of a workbook is a string; pd.to_datetime is the table   *)
(*    ParseDate, its result a day number; strftime is the table Strftime.  *)
(*  - A statistic (median, quantile) is NaN (the empty tuple) or <<q>>     *)
(*    with q the value in quarter units (4 * value), which keeps the       *)
(*    linear interpolation at ranks k/4 exact in integers.                 *)
(*  - A loaded table is a record [status, rows]: status "none" before the  *)
(*    load, "ok" after it, or the name of the exception the loader raised. *)
(***************************************************************************)
EXTENDS Integers, Sequences, FiniteSets, TLC

VARIABLES
    legenda, NAME_MAP, shown,
    xls_corr, corr, c_range, c_selected, stats_df,
    xls_stress, stress_data, xls_exposure, exposure_data,
    s_date, s_sel_ports, s_sel_scen, s_selected_portfolio, plot_df,
    e_date, e_sel_ports, e_selected_portfolio, comp,
    peers_x, bucket_x

nameVars == <<legenda, NAME_MAP, shown>>
corrVars == <<xls_corr, corr, c_range, c_selected, stats_df>>
loadVars == <<xls_stress, stress_data, xls_exposure, exposure_data>>
stressTabVars == <<s_date, s_sel_ports, s_sel_scen, s_selected_portfolio, plot_df>>
exposureTabVars == <<e_date, e_sel_ports, e_selected_portfolio, comp>>
statVars == <<peers_x, bucket_x>>
vars == <<nameVars, corrVars, loadVars, stressTabVars, exposureTabVars, statVars>>

----------------------------------------------------------------------------
(* Bounds of the model. *)

MaxPeers == 4
MaxLegendRows == 3
MaxCorrRows == 3
MaxNameLen == 4
MaxLoadRows == 2
MaxStressRows == 3
MaxExposureRows == 3

----------------------------------------------------------------------------
(* Generic sequence helpers (pandas primitives). *)

SeqsUpTo(S, n) == UNION {[1..k -> S] : k \in 0..n}

Range(s) == {s[i] : i \in DOMAIN s}

RECURSIVE Unique(_)
\* Series.unique(): distinct values in order of first appearance.
Unique(s) ==
    IF s = <<>> THEN <<>>
    ELSE LET h == Head(s)
             NotH(x) == x # h
         IN <<h>> \o Unique(SelectSeq(Tail(s), NotH))

RECURSIVE Insert(_, _)
Insert(x, s) ==
    IF s = <<>> THEN <<x>>
    ELSE IF x < Head(s) THEN <<x>> \o s
         ELSE <<Head(s)>> \o Insert(x, Tail(s))

RECURSIVE SortedValues(_)
\* The values of a numeric column in ascending order (np.sort before a quantile).
SortedValues(s) ==
    IF s = <<>> THEN <<>> ELSE Insert(Head(s), SortedValues(Tail(s)))

SeqMax(s) == CHOOSE x \in Range(s) : \A y \in Range(s) : y <= x
SeqMin(s) == CHOOSE x \in Range(s) : \A y \in Range(s) : x <= y

IndexOf(s, x) == CHOOSE i \in DOMAIN s : s[i] = x /\ \A j \in 1..(i - 1) : s[j] # x

----------------------------------------------------------------------------
(* Bucket statistics: Series.median and Series.quantile (linear).          *)

NaN == <<>>

\* Faulty variant: nearest-lower rank instead of linear interpolation.
quantile_lower(xs, k) ==
    LET s == SortedValues(xs)
        n == Len(s)
        h == (n - 1) * k
    IN IF n = 0 THEN NaN ELSE <<4 * s[(h \div 4) + 1]>>

\* x.quantile(k/4), pandas default interpolation="linear": the value at the
\* fractional rank (n-1)*k/4 of the sorted values; NaN for no value.
quantile(xs, k) ==
    LET s == SortedValues(xs)
        n == Len(s)
        h == (n - 1) * k
        lo == h \div 4
        r == h % 4
    IN IF n = 0 THEN NaN
       ELSE IF r = 0 THEN <<4 * s[lo + 1]>>
       ELSE <<(4 - r) * s[lo + 1] + r * s[lo + 2]>>

\* "median": the middle value, or the mean of the two middle values.
median(xs) ==
    LET s == SortedValues(xs)
        n == Len(s)
    IN IF n = 0 THEN NaN
       ELSE IF n % 2 = 1 THEN <<4 * s[(n + 1) \div 2]>>
       ELSE <<2 * (s[n \div 2] + s[(n \div 2) + 1])>>

\* .agg(bucket_median="median", q25=quantile(0.25), q75=quantile(0.75))
bucket_agg(xs) ==
    [bucket_median |-> median(xs), q25 |-> quantile(xs, 1), q75 |-> quantile(xs, 3)]

----------------------------------------------------------------------------
(* Dates: pd.to_datetime on a date cell, and strftime("%d/%m/%Y").         *)

Days == {1, 2, 3}

ParseableCells == {"2024-01-01", "2024-01-02", "2024-01-03"}

DateCells == ParseableCells \cup {"n/a"}

\* pd.to_datetime(cell): the day number of a parseable cell.
ParseDate(cell) ==
    CASE cell = "2024-01-01" -> 1
      [] cell = "2024-01-02" -> 2
      [] cell = "2024-01-03" -> 3

\* Timestamp.strftime("%d/%m/%Y")
Strftime(d) ==
    CASE d = 1 -> "01/01/2024"
      [] d = 2 -> "02/01/2024"
      [] d = 3 -> "03/01/2024"

\* pd.to_datetime(column) raises when one cell does not parse.
ColumnParses(rows) == \A i \in DOMAIN rows : rows[i][1] \in ParseableCells

----------------------------------------------------------------------------
(* NAME MAP (Ticker -> Name).                                              *)

E7X == <<"E7X">>
PeerA == <<"PeerA">>
PeerB == <<"PeerB">>

Unloaded == [status |-> "none", rows |-> <<>>]

EmptyDict == [t \in {} |-> <<>>]

\* Faulty variant: setdefault, the first value of a key is kept.
DictSetFirst(d, k, v) ==
    [t \in (DOMAIN d) \cup {k} |-> IF t \in DOMAIN d THEN d[t] ELSE v]

\* d[k] = v on a dict: a new key is added, an existing key is overwritten.
DictSet(d, k, v) == [t \in (DOMAIN d) \cup {k} |-> IF t = k THEN v ELSE d[t]]

RECURSIVE DictZip(_, _)
\* dict(zip(legenda["Ticker"], legenda["Name"])): pairs inserted in row order.
DictZip(d, pairs) ==
    IF pairs = <<>> THEN d
    ELSE DictZip(DictSet(d, Head(pairs).Ticker, Head(pairs).Name), Tail(pairs))

load_name_map(leg) == DictZip(EmptyDict, leg)

\* NAME_MAP.get(x, x)
pretty_name(x) == IF x \in DOMAIN NAME_MAP.rows THEN NAME_MAP.rows[x] ELSE x

LegendTickers == {E7X, PeerA}
LegendNames == {<<>>, PeerA, <<"Fund">>}
Codes == {E7X, PeerA, PeerB, <<"Fund">>}
LegendRows == [Ticker : LegendTickers, Name : LegendNames]

\* NAME_MAP = load_name_map()
LoadNameMap ==
    /\ NAME_MAP.status = "none"
    /\ NAME_MAP' = [status |-> "ok", rows |-> load_name_map(legenda)]
    /\ UNCHANGED <<legenda, shown>>
    /\ UNCHANGED <<corrVars, loadVars, stressTabVars, exposureTabVars, statVars>>

\* A label is rendered: format_func=pretty_name / name=pretty_name(c).
ShowName ==
    /\ NAME_MAP.status = "ok"
    /\ \E c \in Codes : shown' = [code |-> c, name |-> pretty_name(c)]
    /\ UNCHANGED <<legenda, NAME_MAP>>
    /\ UNCHANGED <<corrVars, loadVars, stressTabVars, exposureTabVars, statVars>>

----------------------------------------------------------------------------
(* Bucket aggregation on its own: the peers' values of one group.          *)

PeerValues == {10, 20, 30, 40}

Aggregate ==
    /\ bucket_x = <<>>
    /\ bucket_x' = <<bucket_agg(peers_x)>>
    /\ UNCHANGED peers_x
    /\ UNCHANGED <<nameVars, corrVars, loadVars, stressTabVars, exposureTabVars>>

----------------------------------------------------------------------------
(* Initial values of each part of the state.                               *)

NoShown == [code |-> <<>>, name |-> <<>>]

NamesBlank == legenda = <<>> /\ NAME_MAP = Unloaded /\ shown = NoShown

CorrBlank ==
    /\ xls_corr = <<>>
    /\ corr = Unloaded
    /\ c_range = <<>>
    /\ c_selected = <<>>
    /\ stats_df = Unloaded

StressTabBlank ==
    /\ s_date = 0
    /\ s_sel_ports = <<>>
    /\ s_sel_scen = <<>>
    /\ s_selected_portfolio = <<>>
    /\ plot_df = Unloaded

ExposureTabBlank ==
    /\ e_date = 0
    /\ e_sel_ports = <<>>
    /\ e_selected_portfolio = <<>>
    /\ comp = Unloaded

LoadBlank ==
    /\ xls_stress = <<>>
    /\ stress_data = Unloaded
    /\ xls_exposure = [ncols |-> 7, rows |-> <<>>]
    /\ exposure_data = Unloaded

StatBlank == peers_x = <<>> /\ bucket_x = <<>>

----------------------------------------------------------------------------
(* Specifications.                                                         *)

InitNames ==
    /\ legenda \in SeqsUpTo(LegendRows, MaxLegendRows)
    /\ NAME_MAP = Unloaded
    /\ shown = NoShown
    /\ CorrBlank /\ LoadBlank /\ StressTabBlank /\ ExposureTabBlank /\ StatBlank

NextNames == LoadNameMap \/ ShowName

SpecNames == InitNames /\ [][NextNames]_vars

InitStats ==
    /\ peers_x \in SeqsUpTo(PeerValues, MaxPeers)
    /\ bucket_x = <<>>
    /\ NamesBlank /\ CorrBlank /\ LoadBlank /\ StressTabBlank /\ ExposureTabBlank

NextStats == Aggregate

SpecStats == InitStats /\ [][NextStats]_vars

----------------------------------------------------------------------------
(* DATA LOADING: stress workbook.                                          *)
(* A raw sheet is [name, ncols, rows]; a raw row is a tuple of ncols       *)
(* cells; df.columns[j] of the code is position j + 1 of the tuple.        *)

Error(kind) == [status |-> kind, rows |-> <<>>]

Ok(rows) == [status |-> "ok", rows |-> rows]

\* "&&" in sheet
HasDelimiter(name) ==
    \E i \in 1..(Len(name) - 1) : name[i] = "&" /\ name[i + 1] = "&"

FirstDelimiter(name) ==
    CHOOSE i \in 1..(Len(name) - 1) :
        /\ name[i] = "&" /\ name[i + 1] = "&"
        /\ \A j \in 1..(i - 1) : ~(name[j] = "&" /\ name[j + 1] = "&")

LastDelimiter(name) ==
    CHOOSE i \in 1..(Len(name) - 1) :
        /\ name[i] = "&" /\ name[i + 1] = "&"
        /\ \A j \in (i + 1)..(Len(name) - 1) : ~(name[j] = "&" /\ name[j + 1] = "&")

\* Faulty variant: rsplit, the split is made at the last "&&".
split_sheet_last(name) ==
    IF HasDelimiter(name)
    THEN LET i == LastDelimiter(name)
         IN <<SubSeq(name, 1, i - 1), SubSeq(name, i + 2, Len(name))>>
    ELSE <<name, name>>

\* sheet.split("&&", 1) if "&&" in sheet else (sheet, sheet)
split_sheet(name) ==
    IF HasDelimiter(name)
    THEN LET i == FirstDelimiter(name)
         IN <<SubSeq(name, 1, i - 1), SubSeq(name, i + 2, Len(name))>>
    ELSE <<name, name>>

\* The five logical columns of one sheet's rows, in the sheet's row order.
stress_records(sheet) ==
    LET ps == split_sheet(sheet.name)
    IN [i \in DOMAIN sheet.rows |->
            [Date |-> ParseDate(sheet.rows[i][1]),
             Scenario |-> sheet.rows[i][3],
             StressPnL |-> sheet.rows[i][5],
             Portfolio |-> ps[1],
             ScenarioName |-> ps[2]]]

\* Faulty variant: the date column is parsed before the columns are bound.
stress_sheet_status_dates_first(sheet) ==
    IF ~ColumnParses(sheet.rows) THEN "ValueError"
    ELSE IF sheet.ncols < 5 THEN "IndexError"
    ELSE "ok"

\* One pass of the loop body: df.columns[4] raises IndexError on a sheet
\* of fewer than 5 columns, then pd.to_datetime raises ValueError.
stress_sheet_status(sheet) ==
    IF sheet.ncols < 5 THEN "IndexError"
    ELSE IF ~ColumnParses(sheet.rows) THEN "ValueError"
    ELSE "ok"

RECURSIVE concat_sheets(_)
\* for sheet in xls.sheet_names: ... records.append(...); pd.concat(records):
\* the first sheet that raises ends the load.
concat_sheets(xls) ==
    IF xls = <<>> THEN Ok(<<>>)
    ELSE LET st == stress_sheet_status(Head(xls))
             rest == concat_sheets(Tail(xls))
         IN IF st # "ok" THEN Error(st)
            ELSE IF rest.status # "ok" THEN rest
            ELSE Ok(stress_records(Head(xls)) \o rest.rows)

load_stress_data(xls) == concat_sheets(xls)

----------------------------------------------------------------------------
(* DATA LOADING: exposure workbook (sheet MeasuresSeries).                 *)

metrics == <<"Equity Exposure", "Duration", "Spread Duration">>

exposure_records(sheet) ==
    [i \in DOMAIN sheet.rows |->
        [Date |-> ParseDate(sheet.rows[i][1]),
         Portfolio |-> sheet.rows[i][4],
         M |-> [k \in Range(metrics) |->
                   CASE k = "Equity Exposure" -> sheet.rows[i][5]
                     [] k = "Duration" -> sheet.rows[i][6]
                     [] k = "Spread Duration" -> sheet.rows[i][7]]]]

\* df.columns[6] raises IndexError on fewer than 7 columns, then
\* pd.to_datetime raises ValueError; otherwise the rows in sheet order.
load_exposure_data(sheet) ==
    IF sheet.ncols < 7 THEN Error("IndexError")
    ELSE IF ~ColumnParses(sheet.rows) THEN Error("ValueError")
    ELSE Ok(exposure_records(sheet))

\* stress_data = load_stress_data("stress_test_totE7X.xlsx")
LoadStressData ==
    /\ stress_data.status = "none"
    /\ stress_data' = load_stress_data(xls_stress)
    /\ UNCHANGED <<xls_stress, xls_exposure, exposure_data>>
    /\ UNCHANGED <<nameVars, corrVars, stressTabVars, exposureTabVars, statVars>>

\* exposure_data = load_exposure_data("E7X_Exposure.xlsx"); the script
\* reaches this line only when the stress load has not raised.
LoadExposureData ==
    /\ stress_data.status = "ok"
    /\ exposure_data.status = "none"
    /\ exposure_data' = load_exposure_data(xls_exposure)
    /\ UNCHANGED <<xls_stress, stress_data, xls_exposure>>
    /\ UNCHANGED <<nameVars, corrVars, stressTabVars, exposureTabVars, statVars>>

----------------------------------------------------------------------------
(* Workbooks the loaders are run on.                                       *)

Filler == "-"

\* A stress row of ncols cells: date at 0, label at 2, StressPnL at 4.
RawStressRow(ncols, cell, pnl) ==
    [j \in 1..ncols |->
        CASE j = 1 -> cell
          [] j = 3 -> "label"
          [] j = 5 -> pnl
          [] OTHER -> Filler]

\* An exposure row: date at 0, portfolio at 3, the three metrics at 4..6.
RawExposureRow(ncols, cell, p, m) ==
    [j \in 1..ncols |->
        CASE j = 1 -> cell
          [] j = 4 -> p
          [] j = 5 -> m[1]
          [] j = 6 -> m[2]
          [] j = 7 -> m[3]
          [] OTHER -> Filler]

NameSymbols == {"A", "&"}

SheetNames == SeqsUpTo(NameSymbols, MaxNameLen) \ {<<>>}

StressColCounts == {3, 4, 5, 6}

ExposureColCounts == {5, 6, 7, 8}

OneRowSheet(name) ==
    [name |-> name, ncols |-> 5, rows |-> <<RawStressRow(5, "2024-01-01", -5)>>]

\* Workbooks of one or two well-formed sheets under every pair of names.
NamedWorkbooks ==
    {<<OneRowSheet(n)>> : n \in SheetNames}
    \cup {<<OneRowSheet(w[1]), OneRowSheet(w[2])>> :
             w \in {v \in SheetNames \X SheetNames : v[1] # v[2]}}

ShapedSheets(name) ==
    {[name |-> name, ncols |-> c,
      rows |-> [i \in DOMAIN cells |-> RawStressRow(c, cells[i], -5 * i)]] :
        c \in StressColCounts, cells \in SeqsUpTo(DateCells, MaxLoadRows)}

\* Workbooks of one or two sheets of every column count and date column.
ShapedWorkbooks ==
    {<<s1>> : s1 \in ShapedSheets(<<"E7X", "&", "&", "Up">>)}
    \cup {<<s1, s2>> : s1 \in ShapedSheets(<<"E7X", "&", "&", "Up">>),
                       s2 \in ShapedSheets(<<"PeerA">>)}

ShapedExposureSheets ==
    {[ncols |-> c,
      rows |-> [i \in DOMAIN cells |->
                   RawExposureRow(c, cells[i][1], cells[i][2], <<10 * i, 2, 4>>)]] :
        c \in ExposureColCounts,
        cells \in SeqsUpTo(DateCells \X {E7X, PeerA}, MaxLoadRows)}

GoodExposureSheet ==
    [ncols |-> 7, rows |-> <<RawExposureRow(7, "2024-01-01", E7X, <<10, 2, 4>>)>>]

GoodStressWorkbook == <<OneRowSheet(<<"E7X", "&", "&", "Up">>)>>

InitLoad ==
    /\ \/ xls_stress \in NamedWorkbooks \cup ShapedWorkbooks
          /\ xls_exposure = GoodExposureSheet
       \/ xls_stress = GoodStressWorkbook
          /\ xls_exposure \in ShapedExposureSheets
    /\ stress_data = Unloaded
    /\ exposure_data = Unloaded
    /\ NamesBlank /\ CorrBlank /\ StressTabBlank /\ ExposureTabBlank /\ StatBlank

NextLoad == LoadStressData \/ LoadExposureData

SpecLoad == InitLoad /\ [][NextLoad]_vars

----------------------------------------------------------------------------
(* DATA LOADING: correlation workbook, and the correlation tab.            *)
(* A raw row is <<date cell, values>>, values a function of the columns.   *)

Series1 == <<"FUND1">>
Series2 == <<"FUND2">>

\* df.columns of the sheet "Correlation Clean" after set_index.
corr_columns == <<Series1, Series2>>

IndexPerms(n) == {p \in [1..n -> 1..n] : \A i, j \in 1..n : p[i] = p[j] => i = j}

IsSortedByDate(rows) ==
    \A i \in 1..(Len(rows) - 1) : rows[i].Date <= rows[i + 1].Date

\* set_index(first column) after pd.to_datetime
corr_indexed(sheet) ==
    [i \in DOMAIN sheet |-> [Date |-> ParseDate(sheet[i][1]), v |-> sheet[i][2]]]

\* load_corr_data: the possible results. sort_index() sorts by date with
\* an unstable sort: rows of equal date come out in any order.
load_corr_data(sheet) ==
    IF ~ColumnParses(sheet) THEN {Error("ValueError")}
    ELSE LET t == corr_indexed(sheet)
         IN {Ok(u) : u \in {w \in {[i \in DOMAIN t |-> t[p[i]]] :
                                      p \in IndexPerms(Len(t))} :
                               IsSortedByDate(w)}}

\* Faulty variant: a positional-style slice, the end label is left out.
date_range_filter_exclusive(table, start, end) ==
    LET InRange(r) == start <= r.Date /\ r.Date < end
    IN SelectSeq(table, InRange)

\* corr.loc[pd.to_datetime(start):pd.to_datetime(end)]
date_range_filter(table, start, end) ==
    LET InRange(r) == start <= r.Date /\ r.Date <= end
    IN SelectSeq(table, InRange)

\* df[col]
column(df, col) == [i \in DOMAIN df |-> df[i].v[col]]

\* Faulty variant: the first date of the extreme (idxmin / idxmax).
extreme_date_first(df, col, value) ==
    LET At(r) == r.v[col] = value
        hits == SelectSeq(df, At)
    IN SeqMin([i \in DOMAIN hits |-> hits[i].Date])

\* df[col][df[col] == value].index.max()
extreme_date(df, col, value) ==
    LET At(r) == r.v[col] = value
        hits == SelectSeq(df, At)
    IN SeqMax([i \in DOMAIN hits |-> hits[i].Date])

RECURSIVE SeqSum(_)
SeqSum(s) == IF s = <<>> THEN 0 ELSE Head(s) + SeqSum(Tail(s))

\* One row of stats_df; the mean is kept as the fraction num / den.
stats_row(df, col) ==
    LET x == column(df, col)
    IN [series |-> col,
        Name |-> pretty_name(col),
        Mean |-> [num |-> 100 * SeqSum(x), den |-> Len(x)],
        Min |-> 100 * SeqMin(x),
        MinDate |-> Strftime(extreme_date(df, col, SeqMin(x))),
        Max |-> 100 * SeqMax(x),
        MaxDate |-> Strftime(extreme_date(df, col, SeqMax(x)))]

\* The correlation tab for one date range and one selection. With no row
\* in the range, snapshot_date is NaT and df.loc[snapshot_date, selected]
\* raises KeyError before the statistics.
corr_tab(range, selected) ==
    LET df == date_range_filter(corr.rows, range[1], range[2])
    IN IF df = <<>> THEN Error("KeyError")
       ELSE Ok([i \in DOMAIN selected |-> stats_row(df, selected[i])])

\* corr = load_corr_data("corrE7X.xlsx")
LoadCorrData ==
    /\ corr.status = "none"
    /\ corr' \in load_corr_data(xls_corr)
    /\ UNCHANGED <<xls_corr, c_range, c_selected, stats_df>>
    /\ UNCHANGED <<nameVars, loadVars, stressTabVars, exposureTabVars, statVars>>

corr_dates == [i \in DOMAIN corr.rows |-> corr.rows[i].Date]

\* First run of the tab: the date range defaults to the whole index and
\* every series is selected. (An empty table has no default range.)
RunCorrTab ==
    /\ corr.status = "ok" /\ corr.rows # <<>>
    /\ c_range = <<>>
    /\ c_range' = <<SeqMin(corr_dates), SeqMax(corr_dates)>>
    /\ c_selected' = corr_columns
    /\ stats_df' = corr_tab(c_range', c_selected')
    /\ UNCHANGED <<xls_corr, corr>>
    /\ UNCHANGED <<nameVars, loadVars, stressTabVars, exposureTabVars, statVars>>

RangeDays == {0, 1, 2, 3}

\* Faulty variant: the filtered frame is bound back to the global,
\* corr = corr.loc[start:end].
ChangeDateRange_inplace ==
    /\ c_range # <<>>
    /\ \E start \in RangeDays, end \in RangeDays :
          /\ start <= end
          /\ c_range' = <<start, end>>
          /\ corr' = Ok(date_range_filter(corr.rows, start, end))
    /\ stats_df' = corr_tab(c_range', c_selected)
    /\ UNCHANGED <<xls_corr, c_selected>>
    /\ UNCHANGED <<nameVars, loadVars, stressTabVars, exposureTabVars, statVars>>

\* The user picks another date range; the script reruns.
ChangeDateRange ==
    /\ c_range # <<>>
    /\ \E start \in RangeDays, end \in RangeDays :
          /\ start <= end
          /\ c_range' = <<start, end>>
    /\ stats_df' = corr_tab(c_range', c_selected)
    /\ UNCHANGED <<xls_corr, corr, c_selected>>
    /\ UNCHANGED <<nameVars, loadVars, stressTabVars, exposureTabVars, statVars>>

\* The orderings of the sub-lists of a list of options (a multiselect
\* returns the chosen options in the order the user chose them).
Selections(options) ==
    {sel \in SeqsUpTo(Range(options), Len(options)) :
        \A i, j \in DOMAIN sel : sel[i] = sel[j] => i = j}

\* The user changes the selected series; the script reruns.
ChangeSelected ==
    /\ c_range # <<>>
    /\ c_selected' \in Selections(corr_columns)
    /\ stats_df' = corr_tab(c_range, c_selected')
    /\ UNCHANGED <<xls_corr, corr, c_range>>
    /\ UNCHANGED <<nameVars, loadVars, stressTabVars, exposureTabVars, statVars>>

CorrValues == {3, 5}

RawCorrRows ==
    {<<cell, [c \in Range(corr_columns) |-> IF c = Series1 THEN a ELSE 4]>> :
        cell \in DateCells, a \in CorrValues}

\* The legend of a session whose name map is not under study.
DefaultLegend ==
    <<[Ticker |-> E7X, Name |-> <<"Fund">>], [Ticker |-> Series1, Name |-> <<"One">>]>>

NamesLoaded ==
    /\ legenda = DefaultLegend
    /\ NAME_MAP = Ok(load_name_map(DefaultLegend))
    /\ shown = NoShown

InitCorr ==
    /\ xls_corr \in SeqsUpTo(RawCorrRows, MaxCorrRows)
    /\ corr = Unloaded
    /\ c_range = <<>>
    /\ c_selected = <<>>
    /\ stats_df = Unloaded
    /\ NamesLoaded /\ LoadBlank /\ StressTabBlank /\ ExposureTabBlank /\ StatBlank

NextCorr == LoadCorrData \/ RunCorrTab \/ ChangeDateRange \/ ChangeSelected

SpecCorr == InitCorr /\ [][NextCorr]_vars

----------------------------------------------------------------------------
(* Widgets shared by the stress and exposure tabs. A user interaction is  *)
(* possible once the first run of the script has rendered every tab; it   *)
(* reruns the script, of which the model recomputes the tab it changes    *)
(* (the other tabs recompute the same values from the same inputs).       *)

\* The value of a selectbox that has no option.
None == <<"None">>

\* st.selectbox("Analysis portfolio", sel_ports,
\*              index=sel_ports.index("E7X") if "E7X" in sel_ports else 0)
\* before the user touches it.
default_portfolio(sel_ports) ==
    IF sel_ports = <<>> THEN None
    ELSE IF E7X \in Range(sel_ports) THEN sel_ports[IndexOf(sel_ports, E7X)]
    ELSE sel_ports[1]

\* df[df["Portfolio"] == selected_portfolio]
subject_rows(df, subj) ==
    LET IsSubject(r) == r.Portfolio = subj
    IN SelectSeq(df, IsSubject)

\* Faulty variant: the bucket is taken over every row, the subject's included.
peer_rows_all(df, subj) == df

\* df[df["Portfolio"] != selected_portfolio]
peer_rows(df, subj) ==
    LET IsPeer(r) == r.Portfolio # subj
    IN SelectSeq(df, IsPeer)

\* df[df["Portfolio"].isin(sel_ports)]
isin_portfolio(df, sel_ports) ==
    LET Sel(r) == r.Portfolio \in Range(sel_ports)
    IN SelectSeq(df, Sel)

\* data[data["Date"] == date]
on_date(table, d) ==
    LET OnDate(r) == r.Date = d
    IN SelectSeq(table, OnDate)

----------------------------------------------------------------------------
(* TAB - STRESS TEST.                                                      *)

\* sorted(stress_data["Date"].unique()), as a set
stress_dates == {stress_data.rows[i].Date : i \in DOMAIN stress_data.rows}

\* df["Portfolio"].unique().tolist() on the rows of the date
stress_portfolios(d) ==
    LET df == on_date(stress_data.rows, d)
    IN Unique([i \in DOMAIN df |-> df[i].Portfolio])

\* df["ScenarioName"].unique().tolist() after the portfolio filter
stress_scenarios(d, sel_ports) ==
    LET df == isin_portfolio(on_date(stress_data.rows, d), sel_ports)
    IN Unique([i \in DOMAIN df |-> df[i].ScenarioName])

\* The three filters of the controls column.
stress_df(d, sel_ports, sel_scen) ==
    LET Sel(r) == r.ScenarioName \in Range(sel_scen)
    IN SelectSeq(isin_portfolio(on_date(stress_data.rows, d), sel_ports), Sel)

\* df_b.groupby("ScenarioName")["StressPnL"].agg(...): one entry per
\* ScenarioName that occurs in df_b.
stress_bucket(df_b) ==
    [sc \in {df_b[i].ScenarioName : i \in DOMAIN df_b} |->
        LET InGroup(r) == r.ScenarioName = sc
            g == SelectSeq(df_b, InGroup)
        IN bucket_agg([i \in DOMAIN g |-> g[i].StressPnL])]

\* Faulty variant: a left join, every subject row is kept (NaN where no peer).
merge_left(df_p, bucket) ==
    [i \in DOMAIN df_p |->
        LET r == df_p[i]
            b == IF r.ScenarioName \in DOMAIN bucket THEN bucket[r.ScenarioName]
                 ELSE [bucket_median |-> NaN, q25 |-> NaN, q75 |-> NaN]
        IN [Date |-> r.Date, Scenario |-> r.Scenario, StressPnL |-> r.StressPnL,
            Portfolio |-> r.Portfolio, ScenarioName |-> r.ScenarioName,
            bucket_median |-> b.bucket_median, q25 |-> b.q25, q75 |-> b.q75]]

\* df_p.merge(bucket, on="ScenarioName"): inner join; the rows of df_p
\* whose ScenarioName is a key of the bucket, in the order of df_p.
merge(df_p, bucket) ==
    LET Matched(r) == r.ScenarioName \in DOMAIN bucket
        kept == SelectSeq(df_p, Matched)
    IN [i \in DOMAIN kept |->
           LET r == kept[i]
               b == bucket[r.ScenarioName]
           IN [Date |-> r.Date, Scenario |-> r.Scenario, StressPnL |-> r.StressPnL,
               Portfolio |-> r.Portfolio, ScenarioName |-> r.ScenarioName,
               bucket_median |-> b.bucket_median, q25 |-> b.q25, q75 |-> b.q75]]

\* Comparison Analysis of the stress tab: plot_df.
stress_comparison(df, subj) ==
    Ok(merge(subject_rows(df, subj), stress_bucket(peer_rows(df, subj))))

\* One run of the tab with the given widget values.
StressRun(d, sel_ports, sel_scen, subj) ==
    /\ s_date' = d
    /\ s_sel_ports' = sel_ports
    /\ s_sel_scen' = sel_scen
    /\ s_selected_portfolio' = subj
    /\ plot_df' = stress_comparison(stress_df(d, sel_ports, sel_scen), subj)
    /\ UNCHANGED <<nameVars, corrVars, loadVars, exposureTabVars, statVars>>

\* A widget whose options are unchanged keeps the user's value; a widget
\* whose options changed is a new widget and takes its default.
Kept(old_options, new_options, value, default) ==
    IF new_options = old_options THEN value ELSE default

\* The rerun after the widgets upstream of the scenarios were set to d and
\* sel_ports: the scenario and analysis-portfolio widgets keep or reset.
StressRerun(d, sel_ports) ==
    LET sel_scen == Kept(stress_scenarios(s_date, s_sel_ports),
                         stress_scenarios(d, sel_ports),
                         s_sel_scen, stress_scenarios(d, sel_ports))
        subj == Kept(s_sel_ports, sel_ports,
                     s_selected_portfolio, default_portfolio(sel_ports))
    IN StressRun(d, sel_ports, sel_scen, subj)

\* The default of st.selectbox("Select date", ..., index=len(dates) - 1):
\* the latest date; with no date at all the selectbox returns None and
\* pd.to_datetime(None) is NaT, which no row has (day 0 here).
default_date(dates) ==
    IF dates = {} THEN 0 ELSE CHOOSE x \in dates : \A y \in dates : y <= x

\* First run of the script body of the tab, once both tables are loaded:
\* the latest date, every portfolio, every scenario.
RunStressTab ==
    /\ stress_data.status = "ok"
    /\ exposure_data.status = "ok"
    /\ plot_df.status = "none"
    /\ LET d == default_date(stress_dates)
           ports == stress_portfolios(d)
       IN StressRun(d, ports, stress_scenarios(d, ports), default_portfolio(ports))

\* st.selectbox("Select date")
SelectStressDate ==
    /\ comp.status # "none"
    /\ \E d \in stress_dates :
          StressRerun(d, Kept(stress_portfolios(s_date), stress_portfolios(d),
                              s_sel_ports, stress_portfolios(d)))

\* st.multiselect("Select portfolios")
SelectStressPortfolios ==
    /\ comp.status # "none"
    /\ \E sel \in Selections(stress_portfolios(s_date)) : StressRerun(s_date, sel)

\* st.multiselect("Select scenarios")
SelectStressScenarios ==
    /\ comp.status # "none"
    /\ \E sel \in Selections(stress_scenarios(s_date, s_sel_ports)) :
          StressRun(s_date, s_sel_ports, sel, s_selected_portfolio)

\* st.selectbox("Analysis portfolio")
SelectStressAnalysisPortfolio ==
    /\ comp.status # "none"
    /\ \E p \in Range(s_sel_ports) : StressRun(s_date, s_sel_ports, s_sel_scen, p)

----------------------------------------------------------------------------
(* TAB - EXPOSURE.                                                         *)

exposure_dates == {exposure_data.rows[i].Date : i \in DOMAIN exposure_data.rows}

\* df["Portfolio"].unique().tolist() on the rows of the date
exposure_portfolios(d) ==
    LET df == on_date(exposure_data.rows, d)
    IN Unique([i \in DOMAIN df |-> df[i].Portfolio])

exposure_df(d, sel_ports) == isin_portfolio(on_date(exposure_data.rows, d), sel_ports)

\* df_b.agg(["median", q25, q75]).T: one row of statistics per metric.
exposure_bucket(df_b) ==
    [k \in Range(metrics) |-> bucket_agg([i \in DOMAIN df_b |-> df_b[i].M[k]])]

\* df_p.T renamed, reset and merged with the bucket on "Metric": one row
\* per metric, the subject column holding the first row of df_p.
comp_rows(df_p, df_b, subj) ==
    [n \in DOMAIN metrics |->
        LET b == exposure_bucket(df_b)[metrics[n]]
        IN [Metric |-> metrics[n], subject |-> subj, value |-> df_p[1].M[metrics[n]],
            bucket_median |-> b.bucket_median, q25 |-> b.q25, q75 |-> b.q75]]

\* Comparison Analysis of the exposure tab: the possible outcomes.
\*  - df_b.agg([...]) over no row: Series.agg hands a lambda to
\*    Series.apply, which returns an empty Series for an empty input, and
\*    the list aggregation then raises ValueError ("cannot combine
\*    transform and aggregation operations"); a pandas that calls the
\*    lambda on the column itself yields NaN. Which one depends on the
\*    installed pandas, so both are outcomes.
\*  - df_p.index[0] raises IndexError when df_p has no row.
exposure_comparison(df, subj) ==
    LET df_p == subject_rows(df, subj)
        df_b == peer_rows(df, subj)
        after_agg == IF df_p = <<>> THEN {Error("IndexError")}
                     ELSE {Ok(comp_rows(df_p, df_b, subj))}
    IN IF df_b = <<>> THEN {Error("ValueError")} \cup after_agg ELSE after_agg

ExposureRun(d, sel_ports, subj) ==
    /\ e_date' = d
    /\ e_sel_ports' = sel_ports
    /\ e_selected_portfolio' = subj
    /\ comp' \in exposure_comparison(exposure_df(d, sel_ports), subj)
    /\ UNCHANGED <<nameVars, corrVars, loadVars, stressTabVars, statVars>>

ExposureRerun(d, sel_ports) ==
    ExposureRun(d, sel_ports,
                Kept(e_sel_ports, sel_ports,
                     e_selected_portfolio, default_portfolio(sel_ports)))

\* First run of the tab, after the stress tab in the same script run:
\* the latest date and every portfolio.
RunExposureTab ==
    /\ plot_df.status # "none"
    /\ comp.status = "none"
    /\ LET d == default_date(exposure_dates)
           ports == exposure_portfolios(d)
       IN ExposureRun(d, ports, default_portfolio(ports))

\* st.selectbox("Select date")
SelectExposureDate ==
    /\ comp.status # "none"
    /\ \E d \in exposure_dates :
          ExposureRerun(d, Kept(exposure_portfolios(e_date), exposure_portfolios(d),
                                e_sel_ports, exposure_portfolios(d)))

\* st.multiselect("Select portfolios")
SelectExposurePortfolios ==
    /\ comp.status # "none"
    /\ \E sel \in Selections(exposure_portfolios(e_date)) : ExposureRerun(e_date, sel)

\* st.selectbox("Analysis portfolio")
SelectExposureAnalysisPortfolio ==
    /\ comp.status # "none"
    /\ \E p \in Range(e_sel_ports) : ExposureRun(e_date, e_sel_ports, p)

----------------------------------------------------------------------------
(* Workbooks the tabs are run on.                                          *)

Up == <<"Rates Up">>
Down == <<"Equity Down">>

SheetName(p, sc) == p \o <<"&", "&">> \o sc

\* xls.sheet_names of the stress workbook.
TabSheets == <<SheetName(E7X, Up), SheetName(PeerA, Up), SheetName(PeerA, Down)>>

TabCells == {"2024-01-01", "2024-01-02"}

TabValues == {-10, -5}

\* The rows of a workbook, listed sheet by sheet: <<sheet, cell, value>>.
StressListings ==
    {l \in SeqsUpTo((DOMAIN TabSheets) \X TabCells \X TabValues, MaxStressRows) :
        \A i \in 1..(Len(l) - 1) : l[i][1] <= l[i + 1][1]}

StressWorkbook(l) ==
    [k \in DOMAIN TabSheets |->
        LET OfSheet(x) == x[1] = k
            mine == SelectSeq(l, OfSheet)
        IN [name |-> TabSheets[k], ncols |-> 5,
            rows |-> [i \in DOMAIN mine |-> RawStressRow(5, mine[i][2], mine[i][3])]]]

TabMetrics == {<<10, 2, 4>>, <<30, 6, 8>>}

ExposureSheets ==
    {[ncols |-> 7,
      rows |-> [i \in DOMAIN l |-> RawExposureRow(7, l[i][1], l[i][2], l[i][3])]] :
        l \in SeqsUpTo(TabCells \X {E7X, PeerA} \X TabMetrics, MaxExposureRows)}

\* Well-formed workbooks with no data row.
EmptyExposureSheet == [ncols |-> 7, rows |-> <<>>]

EmptyStressWorkbook == StressWorkbook(<<>>)

\* Sessions that vary the stress workbook, and sessions that vary the
\* exposure workbook.
InitTabs ==
    /\ \/ /\ xls_stress \in {StressWorkbook(l) : l \in StressListings}
          /\ xls_exposure = EmptyExposureSheet
       \/ /\ xls_stress = EmptyStressWorkbook
          /\ xls_exposure \in ExposureSheets
    /\ stress_data = Unloaded
    /\ exposure_data = Unloaded
    /\ StressTabBlank /\ ExposureTabBlank
    /\ NamesLoaded /\ CorrBlank /\ StatBlank

NextTabs ==
    \/ LoadStressData \/ LoadExposureData
    \/ RunStressTab \/ SelectStressDate \/ SelectStressPortfolios
    \/ SelectStressScenarios \/ SelectStressAnalysisPortfolio
    \/ RunExposureTab \/ SelectExposureDate \/ SelectExposurePortfolios
    \/ SelectExposureAnalysisPortfolio

SpecTabs == InitTabs /\ [][NextTabs]_vars

----------------------------------------------------------------------------
(* One session of the whole script. The first run executes the module in  *)
(* its textual order: NAME_MAP, corr, stress_data, exposure_data, then the *)
(* correlation, stress and exposure tabs. Every later interaction reruns   *)
(* the script; the four loads are then served by st.cache_data, which      *)
(* returns the value stored by the first run (the cache key is the         *)
(* function and its path argument), so a rerun binds each global to the    *)
(* same table and the tab actions leave them alone.                        *)

\* corr = load_corr_data(...), line 93, after NAME_MAP (line 83).
SessionLoadCorrData == NAME_MAP.status = "ok" /\ LoadCorrData

\* stress_data = load_stress_data(...), line 94, after corr.
SessionLoadStressData == corr.status = "ok" /\ LoadStressData

\* with tab_corr: the first tab of the first run, after the loads.
SessionRunCorrTab == exposure_data.status = "ok" /\ RunCorrTab

\* with tab_stress: after the correlation tab.
SessionRunStressTab == c_range # <<>> /\ RunStressTab

\* Interactions with the correlation tab, once the first run is over.
SessionChangeDateRange == comp.status # "none" /\ ChangeDateRange

SessionChangeSelected == comp.status # "none" /\ ChangeSelected

SessionCorrSheets ==
    {<<<<"2024-01-01", [c \in Range(corr_columns) |-> 3]>>,
       <<"2024-01-02", [c \in Range(corr_columns) |-> 5]>>>>,
     <<<<"2024-01-02", [c \in Range(corr_columns) |-> 5]>>,
       <<"2024-01-02", [c \in Range(corr_columns) |-> 3]>>,
       <<"2024-01-01", [c \in Range(corr_columns) |-> 4]>>>>}

SessionStressWorkbooks ==
    {StressWorkbook(<<<<1, "2024-01-02", -10>>, <<2, "2024-01-01", -5>>,
                      <<2, "2024-01-02", -5>>>>)}

SessionExposureSheets ==
    {[ncols |-> 7,
      rows |-> <<RawExposureRow(7, "2024-01-01", E7X, <<10, 2, 4>>),
                 RawExposureRow(7, "2024-01-01", PeerA, <<30, 6, 8>>)>>]}

InitSession ==
    /\ legenda = DefaultLegend
    /\ NAME_MAP = Unloaded
    /\ shown = NoShown
    /\ xls_corr \in SessionCorrSheets
    /\ corr = Unloaded
    /\ c_range = <<>>
    /\ c_selected = <<>>
    /\ stats_df = Unloaded
    /\ xls_stress \in SessionStressWorkbooks
    /\ stress_data = Unloaded
    /\ xls_exposure \in SessionExposureSheets
    /\ exposure_data = Unloaded
    /\ StressTabBlank /\ ExposureTabBlank /\ StatBlank

NextSession ==
    \/ LoadNameMap \/ SessionLoadCorrData
    \/ SessionLoadStressData \/ LoadExposureData
    \/ SessionRunCorrTab \/ SessionRunStressTab \/ RunExposureTab
    \/ SessionChangeDateRange \/ SessionChangeSelected
    \/ SelectStressDate \/ SelectStressPortfolios
    \/ SelectStressScenarios \/ SelectStressAnalysisPortfolio
    \/ SelectExposureDate \/ SelectExposurePortfolios
    \/ SelectExposureAnalysisPortfolio

SpecSession == InitSession /\ [][NextSession]_vars

----------------------------------------------------------------------------
(* Claims.                                                                 *)

\* The rows of the legend that list ticker c.
ListedAt(c) == {i \in DOMAIN legenda : legenda[i].Ticker = c}

LastListed(c) == CHOOSE i \in ListedAt(c) : \A j \in ListedAt(c) : j <= i

\* C6: pretty_name is total: a code listed in the legend resolves to the
\* name of the last row listing it (also when that name is empty or is
\* itself a listed code: there is no second lookup), and any other code
\* resolves to itself.
C6_PrettyNameTotal ==
    NAME_MAP.status = "ok" =>
        /\ \A c \in Codes :
              pretty_name(c) =
                  IF ListedAt(c) # {} THEN legenda[LastListed(c)].Name ELSE c
        /\ shown # NoShown =>
              shown.name =
                  IF ListedAt(shown.code) # {}
                  THEN legenda[LastListed(shown.code)].Name
                  ELSE shown.code

\* E7X is listed twice with different names, the last of them the code
\* PeerA, which is itself listed with the empty name; E7X has been shown.
C6_Witness ==
    /\ NAME_MAP.status = "ok"
    /\ legenda = <<[Ticker |-> E7X, Name |-> <<"Fund">>],
                   [Ticker |-> E7X, Name |-> PeerA],
                   [Ticker |-> PeerA, Name |-> <<>>]>>
    /\ shown = [code |-> E7X, name |-> PeerA]
    /\ pretty_name(PeerA) = <<>>
    /\ pretty_name(PeerB) = PeerB

\* The value, in quarter units, interpolated linearly between the two
\* order statistics that surround the rank k*(n-1)/4 of the sorted values.
InterpolatedAtRank(sorted, k) ==
    LET h == k * (Len(sorted) - 1)
        below == (h \div 4) + 1
        above == ((h + 3) \div 4) + 1
        w == h - 4 * (below - 1)
    IN 4 * sorted[below] + w * (sorted[above] - sorted[below])

\* C8: the bucket statistics of a non-empty peer group are the median, the
\* 25th and the 75th percentile under linear interpolation at rank
\* p*(n-1) of the sorted peers; q25 <= median <= q75; and the peers
\* 10, 20, 30, 40 (in any order) give 25, 17.5 and 32.5 exactly.
C8_LinearQuantiles ==
    (bucket_x # <<>> /\ peers_x # <<>>) =>
        LET b == bucket_x[1]
            sorted == SortedValues(peers_x)
        IN /\ b.bucket_median = <<InterpolatedAtRank(sorted, 2)>>
           /\ b.q25 = <<InterpolatedAtRank(sorted, 1)>>
           /\ b.q75 = <<InterpolatedAtRank(sorted, 3)>>
           /\ b.q25[1] <= b.bucket_median[1]
           /\ b.bucket_median[1] <= b.q75[1]
           /\ Range(peers_x) = {10, 20, 30, 40} /\ Len(peers_x) = 4 =>
                  b = [bucket_median |-> <<100>>, q25 |-> <<70>>, q75 |-> <<130>>]

\* The peers 40, 10, 30, 20 have been aggregated to 25, 17.5, 32.5.
C8_Witness ==
    /\ peers_x = <<40, 10, 30, 20>>
    /\ bucket_x = <<[bucket_median |-> <<100>>, q25 |-> <<70>>, q75 |-> <<130>>]>>

\* The sheets of the stress workbook that are short or whose date column
\* does not parse.
BadSheets == {k \in DOMAIN xls_stress :
                 xls_stress[k].ncols < 5 \/ ~ColumnParses(xls_stress[k].rows)}

FirstBadSheet == CHOOSE k \in BadSheets : \A j \in BadSheets : k <= j

ExposureSheetBad == xls_exposure.ncols < 7 \/ ~ColumnParses(xls_exposure.rows)

RECURSIVE RowsBefore(_)
\* The number of rows in the first k sheets of the stress workbook.
RowsBefore(k) == IF k = 0 THEN 0 ELSE RowsBefore(k - 1) + Len(xls_stress[k].rows)

\* pf and sc are the two parts of the name around its first "&&".
SplitsAtFirst(name, pf, sc) ==
    /\ name = pf \o <<"&", "&">> \o sc
    /\ \A n \in 0..(Len(pf) - 1) :
          ~(name[n + 1] = "&" /\ name[n + 2] = "&")

\* C10: the loaded stress table is the concatenation of the sheets in
\* workbook order, each sheet's rows in their order; a row has exactly
\* the columns Date, Scenario, StressPnL, Portfolio, ScenarioName, with
\* Portfolio and ScenarioName the parts of the sheet name before and after
\* its first "&&", or both the whole name when it has no "&&".
C10_StressRows ==
    stress_data.status = "ok" =>
        /\ Len(stress_data.rows) = RowsBefore(Len(xls_stress))
        /\ \A k \in DOMAIN xls_stress : \A i \in DOMAIN xls_stress[k].rows :
              LET r == stress_data.rows[RowsBefore(k - 1) + i]
                  raw == xls_stress[k].rows[i]
                  name == xls_stress[k].name
              IN /\ DOMAIN r = {"Date", "Scenario", "StressPnL",
                                "Portfolio", "ScenarioName"}
                 /\ r.Date = ParseDate(raw[1])
                 /\ r.Scenario = raw[3]
                 /\ r.StressPnL = raw[5]
                 /\ IF HasDelimiter(name)
                    THEN SplitsAtFirst(name, r.Portfolio, r.ScenarioName)
                    ELSE r.Portfolio = name /\ r.ScenarioName = name

\* A workbook of the sheets "&&&&" and "A" has been loaded: the first
\* name splits into the empty portfolio and the scenario "&&".
C10_Witness ==
    /\ stress_data.status = "ok"
    /\ Len(xls_stress) = 2
    /\ xls_stress[1].name = <<"&", "&", "&", "&">>
    /\ xls_stress[2].name = <<"A">>
    /\ Len(stress_data.rows) = 2
    /\ stress_data.rows[1].Portfolio = <<>>
    /\ stress_data.rows[1].ScenarioName = <<"&", "&">>
    /\ stress_data.rows[2].Portfolio = <<"A">>
    /\ stress_data.rows[2].ScenarioName = <<"A">>

\* Two sheets of two rows each have been loaded, in order.
C10_OrderWitness ==
    /\ stress_data.status = "ok"
    /\ Len(xls_stress) = 2
    /\ Len(stress_data.rows) = 4
    /\ stress_data.rows[1].Date = 2 /\ stress_data.rows[2].Date = 1
    /\ stress_data.rows[3].Portfolio = PeerA

\* C7 as stated: the index of the loaded correlation table is strictly
\* increasing (sorted ascending, no date twice).
C7_StrictlyIncreasing ==
    corr.status = "ok" =>
        \A i, j \in DOMAIN corr.rows : i < j => corr.rows[i].Date < corr.rows[j].Date

\* The rows of the filtered date range.
C3_df == date_range_filter(corr.rows, c_range[1], c_range[2])

\* The latest date of the range at which series col has value x.
C3_LatestDateAt(col, x) ==
    LET ds == {C3_df[i].Date : i \in {n \in DOMAIN C3_df : C3_df[n].v[col] = x}}
    IN CHOOSE d \in ds : \A e \in ds : e <= d

C3_Values(col) == {C3_df[i].v[col] : i \in DOMAIN C3_df}

\* C3: for every selected series over a non-empty date range, Min Date
\* (Max Date) is the formatted latest date of the range at which the
\* series equals its minimum (maximum).
C3_ExtremeDates ==
    (stats_df.status = "ok" /\ C3_df # <<>>) =>
        /\ Len(stats_df.rows) = Len(c_selected)
        /\ \A n \in DOMAIN c_selected :
              LET col == c_selected[n]
                  r == stats_df.rows[n]
                  lo == CHOOSE x \in C3_Values(col) : \A y \in C3_Values(col) : x <= y
                  hi == CHOOSE x \in C3_Values(col) : \A y \in C3_Values(col) : y <= x
              IN /\ r.series = col
                 /\ r.Min = 100 * lo
                 /\ r.Max = 100 * hi
                 /\ r.MinDate = Strftime(C3_LatestDateAt(col, lo))
                 /\ r.MaxDate = Strftime(C3_LatestDateAt(col, hi))

\* FUND1 is 5, 5, 3 on three successive days, the whole range is
\* selected: its Max Date is the second day and its Min Date the third.
C3_Witness ==
    /\ stats_df.status = "ok"
    /\ Len(corr.rows) = 3
    /\ \A i \in 1..3 : corr.rows[i].Date = i
    /\ corr.rows[1].v[Series1] = 5
    /\ corr.rows[2].v[Series1] = 5
    /\ corr.rows[3].v[Series1] = 3
    /\ c_range = <<1, 3>>
    /\ c_selected = <<Series2, Series1>>
    /\ stats_df.rows[2].MaxDate = "02/01/2024"
    /\ stats_df.rows[2].MinDate = "03/01/2024"
    /\ stats_df.rows[1].MaxDate = "03/01/2024"

\* The rows of the loaded stress table that pass the three filters of the
\* stress tab as the widgets now stand.
StressSnapshot ==
    {i \in DOMAIN stress_data.rows :
        /\ stress_data.rows[i].Date = s_date
        /\ stress_data.rows[i].Portfolio \in Range(s_sel_ports)
        /\ stress_data.rows[i].ScenarioName \in Range(s_sel_scen)}

StressSubject ==
    {i \in StressSnapshot : stress_data.rows[i].Portfolio = s_selected_portfolio}

StressPeers == StressSnapshot \ StressSubject

ScenarioNames(I) == {stress_data.rows[i].ScenarioName : i \in I}

ExposureSnapshot ==
    {i \in DOMAIN exposure_data.rows :
        /\ exposure_data.rows[i].Date = e_date
        /\ exposure_data.rows[i].Portfolio \in Range(e_sel_ports)}

ExposureSubject ==
    {i \in ExposureSnapshot : exposure_data.rows[i].Portfolio = e_selected_portfolio}

ExposurePeers == ExposureSnapshot \ ExposureSubject

RECURSIVE ListOf(_, _, _)
\* The values f[i] for the indices i of I, in increasing order of i.
ListOf(f, I, n) ==
    IF n = 0 THEN <<>>
    ELSE ListOf(f, I, n - 1) \o (IF n \in I THEN <<f[n]>> ELSE <<>>)

StatsOf(r) == [bucket_median |-> r.bucket_median, q25 |-> r.q25, q75 |-> r.q75]

AllNaN(r) == r.bucket_median = NaN /\ r.q25 = NaN /\ r.q75 = NaN

\* C1: in the stress and in the exposure comparison, the bucket statistics
\* of an output row are those of the peers' rows only (rows of the
\* snapshot whose Portfolio is not the subject), and the value reported
\* for the subject is a value of the subject's own row.
C1_PeersOnly ==
    /\ plot_df.status = "ok" =>
          \A n \in DOMAIN plot_df.rows :
             LET r == plot_df.rows[n]
                 group == {i \in StressPeers :
                              stress_data.rows[i].ScenarioName = r.ScenarioName}
                 pnl == [i \in DOMAIN stress_data.rows |-> stress_data.rows[i].StressPnL]
             IN /\ r.Portfolio = s_selected_portfolio
                /\ StatsOf(r) = bucket_agg(ListOf(pnl, group, Len(stress_data.rows)))
                /\ \E i \in StressSubject :
                      /\ stress_data.rows[i].ScenarioName = r.ScenarioName
                      /\ stress_data.rows[i].StressPnL = r.StressPnL
    /\ comp.status = "ok" =>
          \A n \in DOMAIN comp.rows :
             LET r == comp.rows[n]
                 val == [i \in DOMAIN exposure_data.rows |->
                            exposure_data.rows[i].M[r.Metric]]
                 first == CHOOSE i \in ExposureSubject : \A j \in ExposureSubject : i <= j
             IN /\ r.subject = e_selected_portfolio
                /\ r.Metric = metrics[n]
                /\ StatsOf(r) = bucket_agg(ListOf(val, ExposurePeers,
                                                  Len(exposure_data.rows)))
                /\ r.value = val[first]

\* E7X has -10 and its single peer PeerA has -5 on "Rates Up": the
\* comparison reports -10 for E7X and -5 for the three statistics.
C1_Witness ==
    /\ plot_df.status = "ok"
    /\ s_selected_portfolio = E7X
    /\ s_sel_ports = <<E7X, PeerA>>
    /\ Len(plot_df.rows) = 1
    /\ plot_df.rows[1].ScenarioName = Up
    /\ plot_df.rows[1].StressPnL = -10
    /\ StatsOf(plot_df.rows[1]) =
          [bucket_median |-> <<-20>>, q25 |-> <<-20>>, q75 |-> <<-20>>]
    /\ Cardinality(StressPeers) = 1

\* The exposure comparison has run with a subject and a peer of other
\* values.
C1_ExposureWitness ==
    /\ comp.status = "ok"
    /\ e_selected_portfolio = E7X
    /\ comp.rows[1].value = 10
    /\ comp.rows[1].bucket_median = <<120>>
    /\ Cardinality(ExposurePeers) = 1

\* C2 as stated: the comparison has as many rows as there are scenarios
\* common to the subject and to the peers.
C2_RowCountIsIntersection ==
    plot_df.status = "ok" =>
        Len(plot_df.rows) =
            Cardinality(ScenarioNames(StressSubject) \cap ScenarioNames(StressPeers))

\* C2 amended: the comparison holds exactly the subject's rows whose
\* scenario some peer has, so its scenarios are those common to the
\* subject and the peers (a scenario of one side only is dropped); it has
\* one row per such subject row, which is the number of common scenarios
\* when the subject has one row per scenario.
C2_InnerJoin ==
    plot_df.status = "ok" =>
        LET common == ScenarioNames(StressSubject) \cap ScenarioNames(StressPeers)
            kept == {i \in StressSubject : stress_data.rows[i].ScenarioName \in common}
        IN /\ {plot_df.rows[n].ScenarioName : n \in DOMAIN plot_df.rows} = common
           /\ Len(plot_df.rows) = Cardinality(kept)
           /\ (\A i, j \in StressSubject :
                  stress_data.rows[i].ScenarioName = stress_data.rows[j].ScenarioName
                      => i = j)
              => Len(plot_df.rows) = Cardinality(common)

\* The subject PeerA has "Rates Up" and "Equity Down", its peer E7X has
\* "Rates Up" only: the comparison keeps "Rates Up" alone.
C2_Witness ==
    /\ plot_df.status = "ok"
    /\ s_selected_portfolio = PeerA
    /\ ScenarioNames(StressSubject) = {Up, Down}
    /\ ScenarioNames(StressPeers) = {Up}
    /\ Len(plot_df.rows) = 1
    /\ plot_df.rows[1].ScenarioName = Up

\* The subject E7X lacks "Equity Down", which its peer has.
C2_PeerOnlyWitness ==
    /\ plot_df.status = "ok"
    /\ s_selected_portfolio = E7X
    /\ ScenarioNames(StressSubject) = {Up}
    /\ ScenarioNames(StressPeers) = {Up, Down}
    /\ Len(plot_df.rows) = 1

\* C4 as stated: when the subject is the only portfolio of the filtered
\* snapshot, the comparison does not fail and returns the subject's
\* scenarios (metrics) with NaN bucket statistics.
C4_EmptyPeersNaN ==
    /\ (plot_df.status # "none" /\ StressSubject # {} /\ StressPeers = {}) =>
          /\ plot_df.status = "ok"
          /\ {plot_df.rows[n].ScenarioName : n \in DOMAIN plot_df.rows}
                = ScenarioNames(StressSubject)
          /\ \A n \in DOMAIN plot_df.rows : AllNaN(plot_df.rows[n])
    /\ (comp.status # "none" /\ ExposureSubject # {} /\ ExposurePeers = {}) =>
          /\ comp.status = "ok"
          /\ Len(comp.rows) = Len(metrics)
          /\ \A n \in DOMAIN comp.rows : AllNaN(comp.rows[n])

\* The stress half of C4 alone.
C4_StressHalf ==
    (plot_df.status # "none" /\ StressSubject # {} /\ StressPeers = {}) =>
        /\ plot_df.status = "ok"
        /\ {plot_df.rows[n].ScenarioName : n \in DOMAIN plot_df.rows}
              = ScenarioNames(StressSubject)

\* The exposure half of C4 alone.
C4_ExposureHalf ==
    (comp.status # "none" /\ ExposureSubject # {} /\ ExposurePeers = {}) =>
        /\ comp.status = "ok"
        /\ \A n \in DOMAIN comp.rows : AllNaN(comp.rows[n])

\* C5 as stated: with portfolios (scenarios) on offer and none selected,
\* the filtered table is empty and the comparison completes.
C5_EmptySelectionNoError ==
    /\ (plot_df.status # "none"
        /\ stress_portfolios(s_date) # <<>>
        /\ (s_sel_ports = <<>> \/ s_sel_scen = <<>>)) =>
          /\ stress_df(s_date, s_sel_ports, s_sel_scen) = <<>>
          /\ plot_df.status = "ok"
    /\ (comp.status # "none"
        /\ exposure_portfolios(e_date) # <<>>
        /\ e_sel_ports = <<>>) =>
          /\ exposure_df(e_date, e_sel_ports) = <<>>
          /\ comp.status = "ok"

\* The stress half of C5 alone.
C5_StressHalf ==
    (plot_df.status # "none"
     /\ stress_portfolios(s_date) # <<>>
     /\ (s_sel_ports = <<>> \/ s_sel_scen = <<>>)) =>
        /\ stress_df(s_date, s_sel_ports, s_sel_scen) = <<>>
        /\ plot_df = Ok(<<>>)

\* A table that has been loaded is the same table after the step.
StaysLoaded(before, after) == before.status # "none" => after = before

\* C11: the loaded tables are read-only snapshots. Once NAME_MAP, corr,
\* stress_data or exposure_data has been loaded, no step of the session
\* (a change of the date range, of a date, of the selected series,
\* portfolios or scenarios, of the analysis portfolio, and the
\* recomputation it triggers) changes it: the filters and aggregations
\* write plot_df, comp and stats_df only.
C11_ReadOnlySnapshots ==
    [][/\ StaysLoaded(NAME_MAP, NAME_MAP')
       /\ StaysLoaded(corr, corr')
       /\ StaysLoaded(stress_data, stress_data')
       /\ StaysLoaded(exposure_data, exposure_data')]_vars

\* C11, as a state predicate: after the interactions each table is still
\* what its loader made of the workbook.
C11_AsLoaded ==
    /\ NAME_MAP.status # "none" => NAME_MAP = Ok(load_name_map(legenda))
    /\ corr.status # "none" => corr \in load_corr_data(xls_corr)
    /\ stress_data.status # "none" => stress_data = load_stress_data(xls_stress)
    /\ exposure_data.status # "none" =>
          exposure_data = load_exposure_data(xls_exposure)

\* The four tables are loaded and the user has moved every widget away
\* from its default: a narrower date range, one series, one portfolio in
\* each tab, and each comparison has been recomputed from the filtered rows.
C11_Witness ==
    /\ NAME_MAP.status = "ok" /\ corr.status = "ok"
    /\ stress_data.status = "ok" /\ exposure_data.status = "ok"
    /\ c_range = <<2, 2>>
    /\ Len(date_range_filter(corr.rows, 2, 2)) < Len(corr.rows)
    /\ c_selected = <<Series2>>
    /\ stats_df.status = "ok"
    /\ s_sel_ports = <<PeerA>>
    /\ Len(stress_df(s_date, s_sel_ports, s_sel_scen)) \in 1..(Len(stress_data.rows) - 1)
    /\ plot_df.status = "ok"
    /\ e_sel_ports = <<PeerA>>
    /\ Len(exposure_df(e_date, e_sel_ports)) \in 1..(Len(exposure_data.rows) - 1)
    /\ comp.status # "none"
    /\ corr \in load_corr_data(xls_corr)
    /\ stress_data = load_stress_data(xls_stress)
    /\ exposure_data = load_exposure_data(xls_exposure)

\* The positions of the rows of corr dated within [start, end].
InRangeAt(start, end) ==
    {j \in DOMAIN corr.rows : start <= corr.rows[j].Date /\ corr.rows[j].Date <= end}

\* The i-th smallest element of a set of positions.
NthOf(J, i) == CHOOSE j \in J : Cardinality({k \in J : k < j}) = i - 1

\* The rows of corr at the positions J, whole, in the order of corr.
RowsAt(J) == [i \in 1..Cardinality(J) |-> corr.rows[NthOf(J, i)]]

\* The frame the correlation tab works on.
C12_df == date_range_filter(corr.rows, c_range[1], c_range[2])

\* C12: the date-range filter of the correlation tab returns exactly the
\* rows of corr dated start <= d <= end (both ends included), in their
\* order in corr and with every column; the statistics are computed if
\* and only if such a row exists; and filtering the result again with any
\* range that contains [start, end] returns the same rows.
C12_InclusiveIdempotent ==
    (corr.status = "ok" /\ c_range # <<>>) =>
        /\ C12_df = RowsAt(InRangeAt(c_range[1], c_range[2]))
        /\ \A i \in DOMAIN C12_df : DOMAIN C12_df[i].v = Range(corr_columns)
        /\ (stats_df.status = "ok") <=> (InRangeAt(c_range[1], c_range[2]) # {})
        /\ \A s2 \in RangeDays, e2 \in RangeDays :
              (s2 <= c_range[1] /\ c_range[2] <= e2) =>
                  date_range_filter(C12_df, s2, e2) = C12_df

\* A range that cuts the table: a row dated on each end, a row left out,
\* and a strictly wider range to filter the result with again.
C12_Witness ==
    /\ corr.status = "ok" /\ c_range # <<>>
    /\ c_range[1] < c_range[2]
    /\ \E i \in DOMAIN corr.rows : corr.rows[i].Date = c_range[1]
    /\ \E i \in DOMAIN corr.rows : corr.rows[i].Date = c_range[2]
    /\ \E i \in DOMAIN corr.rows : corr.rows[i].Date < c_range[1]
    /\ Len(C12_df) = 2
    /\ stats_df.status = "ok"
    /\ \E s2 \in RangeDays : s2 < c_range[1]

====
